---------------------------- MODULE Spec2Model ----------------------------
(***************************************************************************)
(* Model of the skill-master scripts: the scaffolders (init_skill.py,      *)
(* init_copilot_asset.py), the validator (quick_validate_skill.py) and the *)
(* packager (package_skill.py), as operations on a filesystem.             *)
(*                                                                         *)
(* Text is a sequence of one-character strings, a path is a sequence of    *)
(* names (relative to the working directory), and the filesystem is a      *)
(* function from the existing paths to their nodes.                        *)
(***************************************************************************)
EXTENDS Integers, Sequences, FiniteSets, TLC

VARIABLES
    ident,      \* the identifier argument of the invocations
    nameValue,  \* the value written after "name: " in the skill's SKILL.md
    fs,         \* the filesystem
    result,     \* what the last invocation returned and printed
    nOk,        \* per skills root, how many init_skill invocations succeeded
    pc,         \* SpecRace: where each concurrent init_skill stands
    perr,       \* SpecRace: the error each concurrent init_skill raised
    wrote       \* SpecRace: the files each concurrent init_skill wrote

vars == <<ident, nameValue, fs, result, nOk, pc, perr, wrote>>

-----------------------------------------------------------------------------
(* Bounds of the model. *)

\* Longest identifier enumerated over IdAlphabet.
MaxIdLen == 3

\* Longest frontmatter name value enumerated over ValAlphabet.
MaxValLen == 3

-----------------------------------------------------------------------------
(* Characters and strings. *)

Lower == <<"a","b","c","d","e","f","g","h","i","j","k","l","m","n","o","p","q","r","s","t","u",
       "v","w","x","y","z">>

Upper == <<"A","B","C","D","E","F","G","H","I","J","K","L","M","N","O","P","Q","R","S","T","U",
       "V","W","X","Y","Z">>

Digits == {"0", "1", "2", "3", "4", "5", "6", "7", "8", "9"}

Range(s) == {s[i] : i \in 1..Len(s)}

\* The class [a-z0-9] of the identifier patterns.
AlnumLower == Range(Lower) \cup Digits

\* The characters str.strip() removes and \s matches (ASCII part).
Whitespace == {" ", "\t", "\n", "\r", "\f"}

Min(S) == CHOOSE x \in S : \A y \in S : x <= y

Max(S) == CHOOSE x \in S : \A y \in S : x >= y

IndexIn(s, c) == CHOOSE i \in 1..Len(s) : s[i] = c

\* str.upper() and str.lower() on one character.
UpperChar(c) == IF c \in Range(Lower) THEN Upper[IndexIn(Lower, c)] ELSE c

LowerChar(c) == IF c \in Range(Upper) THEN Lower[IndexIn(Upper, c)] ELSE c

\* str.capitalize(): first character upper-cased, the rest lower-cased.
Capitalize(s) ==
    [i \in 1..Len(s) |-> IF i = 1 THEN UpperChar(s[i]) ELSE LowerChar(s[i])]

\* str.split(sep) for a one-character separator: the list of parts.
RECURSIVE Split(_, _)
Split(s, sep) ==
    IF \A i \in 1..Len(s) : s[i] # sep
    THEN <<s>>
    ELSE LET k == Min({i \in 1..Len(s) : s[i] = sep})
         IN  <<SubSeq(s, 1, k - 1)>> \o Split(SubSeq(s, k + 1, Len(s)), sep)

\* sep.join(parts).
RECURSIVE Join(_, _)
Join(parts, sep) ==
    IF Len(parts) = 0 THEN <<>>
    ELSE IF Len(parts) = 1 THEN parts[1]
    ELSE parts[1] \o sep \o Join(Tail(parts), sep)

\* Python's s[a:b] for 0 <= a and 0-based offsets.
Slice(s, a, b) == SubSeq(s, a + 1, b)

StartsWith(s, pre) == Len(s) >= Len(pre) /\ SubSeq(s, 1, Len(pre)) = pre

\* str.find(pat, start): the lowest 0-based offset >= start, or -1.
MatchAt(s, pat, i) == \A k \in 1..Len(pat) : s[i + k] = pat[k]

Find(s, pat, start) ==
    LET range == start..(Len(s) - Len(pat))
    IN  IF \E i \in range : MatchAt(s, pat, i)
        THEN CHOOSE i \in range :
                 MatchAt(s, pat, i) /\ \A j \in start..(i - 1) : ~MatchAt(s, pat, j)
        ELSE -1

\* str.strip(chars): leading and trailing characters of the set removed.
StripChars(s, set) ==
    IF \A i \in 1..Len(s) : s[i] \in set THEN <<>>
    ELSE LET first == CHOOSE i \in 1..Len(s) :
                          s[i] \notin set /\ \A j \in 1..(i - 1) : s[j] \in set
             last == CHOOSE i \in 1..Len(s) :
                         s[i] \notin set /\ \A j \in (i + 1)..Len(s) : s[j] \in set
         IN  SubSeq(s, first, last)

\* Unquote with the two quote strips forgotten.
UnquoteKeepQuotes(s) == StripChars(s, Whitespace)

\* group(1).strip().strip('"').strip("'")
Unquote(s) == StripChars(StripChars(StripChars(s, Whitespace), {"\""}), {"'"})

Contains(s, c) == \E i \in 1..Len(s) : s[i] = c

Repeat(c, n) == [i \in 1..n |-> c]

-----------------------------------------------------------------------------
(* The identifier rule. *)

MaxNameLen == 64

MaxDescriptionLen == 1024

\* ^[a-z0-9]+(?:-[a-z0-9]+)*$ under fullmatch, run as an automaton:
\* "start" and "hyphen" need a character of the class, "word" accepts.
RECURSIVE KebabRun(_, _, _)
KebabRun(s, i, st) ==
    IF i > Len(s) THEN st = "word"
    ELSE IF s[i] \in AlnumLower THEN KebabRun(s, i + 1, "word")
    ELSE IF s[i] = "-" /\ st = "word" THEN KebabRun(s, i + 1, "hyphen")
    ELSE FALSE

\* The pattern written as ^[a-zA-Z0-9-]+$: case and hyphen placement unchecked.
KebabFullMatchLoose(s) ==
    Len(s) > 0 /\ \A i \in 1..Len(s) : LowerChar(s[i]) \in AlnumLower \cup {"-"}

KebabFullMatch(s) == KebabRun(s, 1, "start")

NoError == [exc |-> "", msg |-> ""]

Error(exc, msg) == [exc |-> exc, msg |-> msg]

ValidateSkillName(name) ==
    IF Len(name) < 1 \/ Len(name) > MaxNameLen
    THEN Error("ValueError", "skill-name must be 1-64 characters")
    ELSE IF ~KebabFullMatch(name)
    THEN Error("ValueError", "skill-name must be lowercase a-z0-9 plus single hyphens")
    ELSE NoError

ValidateInstructionTopic(topic) ==
    IF Len(topic) < 1 \/ Len(topic) > MaxNameLen
    THEN Error("ValueError", "topic must be 1..64 characters")
    ELSE IF ~KebabFullMatch(topic)
    THEN Error("ValueError", "topic must be lower-kebab-case")
    ELSE NoError

ValidateAgentRole(role) ==
    IF Len(role) < 1 \/ Len(role) > MaxNameLen
    THEN Error("ValueError", "role must be 1..64 characters")
    ELSE IF ~KebabFullMatch(role)
    THEN Error("ValueError", "role must be lower-kebab-case")
    ELSE NoError

TitleFromKebab(name) ==
    LET parts == Split(name, "-")
    IN  Join([i \in 1..Len(parts) |-> Capitalize(parts[i])], <<" ">>)

-----------------------------------------------------------------------------
(* The templates. *)

\* The two backquotes around references/topic-a.md are written ' here (a string
\* of the module cannot hold a backquote); they stand in the body, after the
\* frontmatter.
SkillMdContent(skill_name) ==
    <<"-","-","-","\n","n","a","m","e",":"," ">> \o skill_name \o <<"\n">>
    \o <<"d","e","s","c","r","i","p","t","i","o","n",":"," ","\"","[","T","O","D","O","]"," ",
       "D","e","s","c","r","i","b","e"," ","w","h","a","t"," ","t","h","i","s"," ","s","k",
       "i","l","l"," ","d","o","e","s"," ","a","n","d"," ","w","h","e","n"," ","t","o"," ",
       "u","s","e"," ","i","t","."," ","I","n","c","l","u","d","e"," ","d","i","s","c","o",
       "v","e","r","y"," ","k","e","y","w","o","r","d","s",".","\"","\n">>
    \o <<"-","-","-","\n","\n","#"," ">> \o TitleFromKebab(skill_name) \o <<"\n","\n">>
    \o <<"#","#"," ","W","h","e","n"," ","t","o"," ","U","s","e","\n","\n","-"," ","[","T",
       "O","D","O","]"," ","S","i","t","u","a","t","i","o","n","s"," ","a","n","d"," ","t",
       "r","i","g","g","e","r","s","\n","\n">>
    \o <<"#","#"," ","Q","u","i","c","k"," ","N","a","v","i","g","a","t","i","o","n","\n",
       "\n","-"," ","T","o","p","i","c"," ","A",":"," ","'","r","e","f","e","r","e","n","c",
       "e","s","/","t","o","p","i","c","-","a",".","m","d","'","\n","\n">>
    \o <<"#","#"," ","S","t","e","p","s"," ","/"," ","R","e","c","i","p","e","s","\n","\n",
       "1","."," ","[","T","O","D","O","]","\n","\n">>
    \o <<"#","#"," ","C","r","i","t","i","c","a","l"," ","P","r","o","h","i","b","i","t","i",
       "o","n","s","\n","\n","-"," ","[","T","O","D","O","]","\n","\n">>
    \o <<"#","#"," ","L","i","n","k","s","\n","\n","-"," ","[","T","O","D","O","]"," ","E",
       "x","t","e","r","n","a","l"," ","r","e","f","e","r","e","n","c","e","s","\n">>

\* The dash of the first list item is U+2014 in the source, written "--" here.
ReadmeContent(skill_name) ==
    <<"#"," ">> \o TitleFromKebab(skill_name) \o <<"\n","\n">>
    \o <<"[","T","O","D","O","]"," ","B","r","i","e","f"," ","d","e","s","c","r","i","p","t",
       "i","o","n"," ","f","o","r"," ","h","u","m","a","n"," ","r","e","a","d","e","r","s",
       ".","\n","\n">>
    \o <<"#","#"," ","Q","u","i","c","k"," ","N","a","v","i","g","a","t","i","o","n","\n",
       "\n">>
    \o <<"-"," ","[","S","K","I","L","L",".","m","d","]","(","S","K","I","L","L",".","m","d",
       ")"," ","-","-"," ","E","n","t","r","y"," ","p","o","i","n","t"," ","f","o","r"," ",
       "a","g","e","n","t","s","\n">>
    \o <<"-"," ","[","r","e","f","e","r","e","n","c","e","s","/","]","(","r","e","f","e","r",
       "e","n","c","e","s","/",")"," ","-","-"," ","D","e","t","a","i","l","e","d"," ","d",
       "o","c","u","m","e","n","t","a","t","i","o","n","\n">>

InstructionContent(topic, apply_to) ==
    <<"-","-","-","\n">>
    \o <<"d","e","s","c","r","i","p","t","i","o","n",":"," ","\"","[","T","O","D","O","]"," ",
       "B","r","i","e","f","l","y"," ","d","e","s","c","r","i","b","e"," ","t","h","e"," ",
       "n","o","r","m","s","/","s","t","a","n","d","a","r","d","s"," ","e","n","f","o","r",
       "c","e","d"," ","f","o","r"," ","f","i","l","e","s"," ","m","a","t","c","h","e","d",
       " ","b","y"," ","a","p","p","l","y","T","o",".","\"","\n">>
    \o <<"a","p","p","l","y","T","o",":"," ","\"">> \o apply_to \o <<"\"","\n">>
    \o <<"-","-","-","\n","\n","#"," ">> \o TitleFromKebab(topic) \o <<"\n","\n">>
    \o <<"#","#"," ","M","U","S","T","\n","\n","-"," ","[","T","O","D","O","]","\n","\n","#",
       "#"," ","M","U","S","T"," ","N","O","T","\n","\n","-"," ","[","T","O","D","O","]",
       "\n","\n","#","#"," ","E","x","a","m","p","l","e","s","\n","\n","[","T","O","D","O",
       "]","\n">>

AgentContent(role) ==
    <<"-","-","-","\n">>
    \o <<"d","e","s","c","r","i","p","t","i","o","n",":"," ","\"","[","T","O","D","O","]"," ",
       "W","h","e","n"," ","t","o"," ","c","h","o","o","s","e"," ","t","h","e"," ">> \o role
    \o <<" ","a","g","e","n","t"," ","a","n","d"," ","w","h","a","t"," ","i","t"," ","i","s",
       " ","r","e","s","p","o","n","s","i","b","l","e"," ","f","o","r",".","\"","\n">>
    \o <<"-","-","-","\n","\n","#"," ">> \o TitleFromKebab(role) \o <<" ","A","g","e","n","t","\n","\n">>
    \o <<"#","#"," ","W","h","e","n"," ","t","o"," ","u","s","e","\n","\n","-"," ","[","T",
       "O","D","O","]","\n","\n","#","#"," ","W","h","a","t"," ","i","t"," ","d","o","e",
       "s","\n","\n","-"," ","[","T","O","D","O","]","\n","\n">>
    \o <<"#","#"," ","H","a","r","d"," ","p","r","o","h","i","b","i","t","i","o","n","s","\n",
       "\n","-"," ","[","T","O","D","O","]","\n","\n","#","#"," ","L","i","n","k","s","\n",
       "\n","-"," ","[","T","O","D","O","]"," ","L","i","n","k"," ","t","o"," ","r","e","l",
       "e","v","a","n","t"," ","s","k","i","l","l","s","\n">>

-----------------------------------------------------------------------------
(* The filesystem. *)

DirNode == [kind |-> "dir", data |-> <<>>, entries |-> {}, target |-> <<>>]

FileNode(text) == [kind |-> "file", data |-> text, entries |-> {}, target |-> <<>>]

\* A zip archive: a regular file holding a set of entries.
ZipNode(es) == [kind |-> "zip", data |-> <<>>, entries |-> es, target |-> <<>>]

LinkNode(to) == [kind |-> "symlink", data |-> <<>>, entries |-> {}, target |-> to]

Parent(p) == SubSeq(p, 1, Len(p) - 1)

PathName(p) == p[Len(p)]

IsPrefix(d, p) == Len(d) <= Len(p) /\ SubSeq(p, 1, Len(d)) = d

IsUnder(d, p) == Len(d) < Len(p) /\ IsPrefix(d, p)

\* Path.relative_to(d) for a path under d.
RelativeTo(p, d) == SubSeq(p, Len(d) + 1, Len(p))

Put(f, p, node) == [q \in DOMAIN f \cup {p} |-> IF q = p THEN node ELSE f[q]]

\* Path.resolve(): a symbolic link is followed to its target.
Resolve(f, p) == IF p \in DOMAIN f /\ f[p].kind = "symlink" THEN f[p].target ELSE p

\* Path.exists(), Path.is_dir(), Path.is_symlink(): the first two follow links.
Exists(f, p) == Resolve(f, p) \in DOMAIN f

IsDir(f, p) == Exists(f, p) /\ f[Resolve(f, p)].kind = "dir"

IsSymlink(f, p) == p \in DOMAIN f /\ f[p].kind = "symlink"

\* os.mkdir that accepts an existing directory, as mkdir(exist_ok=True) does.
OsMkdirNonExclusive(f, p) ==
    IF Len(p) = 0 THEN [err |-> Error("FileExistsError", "File exists"), fs |-> f]
    ELSE IF ~Exists(f, Parent(p))
    THEN [err |-> Error("FileNotFoundError", "No such file or directory"), fs |-> f]
    ELSE IF ~IsDir(f, Parent(p))
    THEN [err |-> Error("NotADirectoryError", "Not a directory"), fs |-> f]
    ELSE IF p \in DOMAIN f /\ ~IsDir(f, p)
    THEN [err |-> Error("FileExistsError", "File exists"), fs |-> f]
    ELSE [err |-> NoError, fs |-> Put(f, p, DirNode)]

\* os.mkdir(p): one exclusive system call.
OsMkdir(f, p) ==
    IF Len(p) = 0 THEN [err |-> Error("FileExistsError", "File exists"), fs |-> f]
    ELSE IF ~Exists(f, Parent(p))
    THEN [err |-> Error("FileNotFoundError", "No such file or directory"), fs |-> f]
    ELSE IF ~IsDir(f, Parent(p))
    THEN [err |-> Error("NotADirectoryError", "Not a directory"), fs |-> f]
    ELSE IF p \in DOMAIN f
    THEN [err |-> Error("FileExistsError", "File exists"), fs |-> f]
    ELSE [err |-> NoError, fs |-> Put(f, p, DirNode)]

\* Path.mkdir(parents, exist_ok).
RECURSIVE PathMkdir(_, _, _, _)
PathMkdir(f, p, parents, exist_ok) ==
    LET r == OsMkdir(f, p)
    IN  IF r.err = NoError THEN r
        ELSE IF r.err.exc = "FileNotFoundError"
        THEN IF ~parents \/ Len(p) = 0 THEN r
             ELSE LET up == PathMkdir(f, Parent(p), TRUE, TRUE)
                  IN  IF up.err # NoError THEN up
                      ELSE PathMkdir(up.fs, p, FALSE, exist_ok)
        ELSE IF ~exist_ok \/ ~IsDir(f, p) THEN r
        ELSE [err |-> NoError, fs |-> f]

\* Path.write_text(content): creates or truncates the file.
WriteText(f, p, content) ==
    IF ~Exists(f, Parent(p))
    THEN [err |-> Error("FileNotFoundError", "No such file or directory"), fs |-> f]
    ELSE IF ~IsDir(f, Parent(p))
    THEN [err |-> Error("NotADirectoryError", "Not a directory"), fs |-> f]
    ELSE IF IsDir(f, p)
    THEN [err |-> Error("IsADirectoryError", "Is a directory"), fs |-> f]
    ELSE [err |-> NoError, fs |-> Put(f, Resolve(f, p), FileNode(content))]

EnsureParentDir(f, p) == PathMkdir(f, Parent(p), TRUE, TRUE)

WriteFileIfMissing(f, p, content) ==
    IF Exists(f, p)
    THEN [err |-> Error("FileExistsError", "File already exists"), fs |-> f]
    ELSE LET up == EnsureParentDir(f, p)
         IN  IF up.err # NoError THEN up ELSE WriteText(up.fs, p, content)

\* _mkdir_if_missing with its test inverted.
MkdirIfMissingInverted(f, p) ==
    IF ~Exists(f, p)
    THEN [err |-> Error("FileExistsError", "Path already exists"), fs |-> f]
    ELSE PathMkdir(f, p, TRUE, FALSE)

MkdirIfMissing(f, p) ==
    IF Exists(f, p)
    THEN [err |-> Error("FileExistsError", "Path already exists"), fs |-> f]
    ELSE PathMkdir(f, p, TRUE, FALSE)

-----------------------------------------------------------------------------
(* The names the scripts use. *)

SKILL_MD == <<"S","K","I","L","L",".","m","d">>

README_MD == <<"R","E","A","D","M","E",".","m","d">>

REFERENCES == <<"r","e","f","e","r","e","n","c","e","s">>

DS_STORE == <<".","D","S","_","S","t","o","r","e">>

SkillDirOf(root, name) == Append(root, name)

InstructionPath(root, topic) == Append(root, topic \o <<".","i","n","s","t","r","u","c","t","i","o","n","s",".","m","d">>)

AgentPath(root, role) == Append(root, role \o <<".","a","g","e","n","t",".","m","d">>)

-----------------------------------------------------------------------------
(* The scaffolders. *)

InitSkill(f, skill_name, skills_root) ==
    LET v == ValidateSkillName(skill_name)
        skill_dir == SkillDirOf(skills_root, skill_name)
        made == MkdirIfMissing(f, skill_dir)
        md == WriteFileIfMissing(made.fs, Append(skill_dir, SKILL_MD),
                                 SkillMdContent(skill_name))
        refs == PathMkdir(md.fs, Append(skill_dir, REFERENCES), FALSE, TRUE)
        readme_path == Append(skill_dir, README_MD)
        readme == IF ~Exists(refs.fs, readme_path)
                  THEN WriteText(refs.fs, readme_path, ReadmeContent(skill_name))
                  ELSE [err |-> NoError, fs |-> refs.fs]
    IN  IF v # NoError THEN [err |-> v, fs |-> f]
        ELSE IF made.err # NoError THEN made
        ELSE IF md.err # NoError THEN md
        ELSE IF refs.err # NoError THEN refs
        ELSE readme

InitInstruction(f, instructions_root, topic, apply_to) ==
    LET v == ValidateInstructionTopic(topic)
    IN  IF v # NoError THEN [err |-> v, fs |-> f]
        ELSE IF Len(apply_to) = 0
        THEN [err |-> Error("ValueError", "--apply-to is required"), fs |-> f]
        ELSE WriteFileIfMissing(f, InstructionPath(instructions_root, topic),
                                InstructionContent(topic, apply_to))

InitAgent(f, agents_root, role) ==
    LET v == ValidateAgentRole(role)
    IN  IF v # NoError THEN [err |-> v, fs |-> f]
        ELSE WriteFileIfMissing(f, AgentPath(agents_root, role), AgentContent(role))

-----------------------------------------------------------------------------
(* The validator. *)

ExtractFrontmatter(text) ==
    IF ~StartsWith(text, <<"-","-","-","\n">>)
    THEN [err |-> Error("ValueError", "No YAML frontmatter found"), value |-> <<>>]
    ELSE LET end == Find(text, <<"\n","-","-","-">>, 4)
         IN  IF end = -1
             THEN [err |-> Error("ValueError", "Invalid YAML frontmatter (missing closing)"),
                   value |-> <<>>]
             ELSE [err |-> NoError, value |-> Slice(text, 4, end)]

\* The 0-based offset where . stops matching from offset b: the end of the line.
LineEnd(s, b) ==
    LET nl == Find(s, <<"\n">>, b)
    IN  IF nl = -1 THEN Len(s) ELSE nl

\* The numbers of characters the first \s* may take after the key at offset p so
\* that (.+) still finds a character to match.
FieldSkips(s, key, p) ==
    LET b == p + Len(key)
    IN  {i \in 0..(Len(s) - b - 1) :
            /\ \A j \in 1..i : s[b + j] \in Whitespace
            /\ s[b + i + 1] # "\n"}

\* The search without re.MULTILINE: ^ matches at offset 0 only.
ReSearchFieldNoMultiline(s, key) ==
    IF /\ Len(key) <= Len(s)
       /\ Slice(s, 0, Len(key)) = key
       /\ FieldSkips(s, key, 0) # {}
    THEN LET b == Len(key) + Max(FieldSkips(s, key, 0))
         IN  [found |-> TRUE, group |-> Slice(s, b, LineEnd(s, b))]
    ELSE [found |-> FALSE, group |-> <<>>]

\* re.search(r"^<key>\s*(.+)\s*$", s, re.MULTILINE): the leftmost line start where
\* the key stands and the pattern matches; both \s* and .+ are greedy, so the
\* first takes the most it can and the group runs to the end of its line.
ReSearchField(s, key) ==
    LET starts == {p \in 0..Len(s) :
                      /\ p = 0 \/ s[p] = "\n"
                      /\ p + Len(key) <= Len(s)
                      /\ Slice(s, p, p + Len(key)) = key
                      /\ FieldSkips(s, key, p) # {}}
    IN  IF starts = {} THEN [found |-> FALSE, group |-> <<>>]
        ELSE LET p == Min(starts)
                 b == p + Len(key) + Max(FieldSkips(s, key, p))
             IN  [found |-> TRUE, group |-> Slice(s, b, LineEnd(s, b))]

ValidateSkillDir(f, skill_dir_arg) ==
    LET skill_dir == Resolve(f, skill_dir_arg)
        skill_md == Append(skill_dir, SKILL_MD)
        content == f[Resolve(f, skill_md)].data
        fm == ExtractFrontmatter(content)
        name_match == ReSearchField(fm.value, <<"n","a","m","e",":">>)
        name == Unquote(name_match.group)
        desc_match == ReSearchField(fm.value, <<"d","e","s","c","r","i","p","t","i","o","n",":">>)
        description == Unquote(desc_match.group)
    IN  IF ~Exists(f, skill_dir) THEN Error("FileNotFoundError", "Skill directory not found")
        ELSE IF ~IsDir(f, skill_dir) THEN Error("ValueError", "Not a directory")
        ELSE IF ~Exists(f, skill_md) THEN Error("FileNotFoundError", "SKILL.md not found")
        ELSE IF IsDir(f, skill_md) THEN Error("IsADirectoryError", "Is a directory")
        ELSE IF fm.err # NoError THEN fm.err
        ELSE IF ~name_match.found THEN Error("ValueError", "Missing 'name:' in YAML frontmatter")
        ELSE IF Len(name) < 1 \/ Len(name) > MaxNameLen
        THEN Error("ValueError", "name must be 1-64 characters")
        ELSE IF ~KebabFullMatch(name)
        THEN Error("ValueError", "name must be lowercase a-z0-9 plus single hyphens")
        ELSE IF name # PathName(skill_dir)
        THEN Error("ValueError", "Frontmatter name must match directory name")
        ELSE IF ~desc_match.found
        THEN Error("ValueError", "Missing 'description:' in YAML frontmatter")
        ELSE IF Len(description) < 1 THEN Error("ValueError", "description must not be empty")
        ELSE IF Len(description) > MaxDescriptionLen
        THEN Error("ValueError", "description must be max 1024 characters")
        ELSE IF Contains(description, "<") \/ Contains(description, ">")
        THEN Error("ValueError", "description must not contain angle brackets")
        ELSE NoError

-----------------------------------------------------------------------------
(* The packager. *)

\* The archive put beside the files it packs.
ZipPathInSkillDir(skill_dir, out_dir) ==
    Append(skill_dir, PathName(skill_dir) \o <<".","z","i","p">>)

ZipPath(skill_dir, out_dir) == Append(out_dir, PathName(skill_dir) \o <<".","z","i","p">>)

\* _iter_files without the test for .DS_Store.
IterFilesKeepMarker(f, skill_dir) ==
    {p \in DOMAIN f :
        /\ IsUnder(skill_dir, p)
        /\ ~IsDir(f, p)
        /\ ~IsSymlink(f, p)
        /\ IsPrefix(Resolve(f, skill_dir), Resolve(f, p))}

\* skill_dir.rglob("*") lists every path below skill_dir and does not descend
\* through a symbolic link (a link is a leaf of the tree).
IterFiles(f, skill_dir) ==
    {p \in DOMAIN f :
        /\ IsUnder(skill_dir, p)
        /\ ~IsDir(f, p)
        /\ ~IsSymlink(f, p)
        /\ PathName(p) # DS_STORE
        /\ IsPrefix(Resolve(f, skill_dir), Resolve(f, p))}

\* (Path(skill_dir.name) / file_path.relative_to(skill_dir)).as_posix()
ArcName(skill_dir, file_path) ==
    Join(<<PathName(skill_dir)>> \o RelativeTo(file_path, skill_dir), <<"/">>)

\* zf.write(file_path, arcname): the file's content under the entry's name.
ZipEntry(f, skill_dir, p) ==
    [arcname |-> ArcName(skill_dir, p), data |-> f[p].data, entries |-> f[p].entries]

\* main without the refusal: an existing archive is written over.
WriteArchiveOverwrite(f, skill_dir, out_dir_arg) ==
    LET out_dir == Resolve(f, out_dir_arg)
        made == PathMkdir(f, out_dir, TRUE, TRUE)
        zip_path == ZipPath(skill_dir, out_dir)
        files == IterFiles(made.fs, skill_dir)
    IN  IF made.err # NoError THEN made
        ELSE [err |-> NoError,
              fs |-> Put(made.fs, zip_path,
                         ZipNode({ZipEntry(made.fs, skill_dir, p) : p \in files}))]

\* main, after the validation: the output directory, the archive's path, the
\* refusal to overwrite, the files, the archive.
WriteArchive(f, skill_dir, out_dir_arg) ==
    LET out_dir == Resolve(f, out_dir_arg)
        made == PathMkdir(f, out_dir, TRUE, TRUE)
        zip_path == ZipPath(skill_dir, out_dir)
        files == IterFiles(made.fs, skill_dir)
    IN  IF made.err # NoError THEN made
        ELSE IF Exists(made.fs, zip_path)
        THEN [err |-> Error("FileExistsError", "Refusing to overwrite existing archive"),
              fs |-> made.fs]
        ELSE [err |-> NoError,
              fs |-> Put(made.fs, zip_path,
                         ZipNode({ZipEntry(made.fs, skill_dir, p) : p \in files}))]

\* main with the output directory made before the validation.
PackageSkillMkdirFirst(f, skill_dir_arg, out_dir_arg) ==
    LET skill_dir == Resolve(f, skill_dir_arg)
        made == PathMkdir(f, Resolve(f, out_dir_arg), TRUE, TRUE)
        v == ValidateSkillDir(made.fs, skill_dir)
    IN  IF made.err # NoError THEN made
        ELSE IF v # NoError THEN [err |-> v, fs |-> made.fs]
        ELSE WriteArchive(made.fs, skill_dir, out_dir_arg)

PackageSkill(f, skill_dir_arg, out_dir_arg) ==
    LET skill_dir == Resolve(f, skill_dir_arg)
        v == ValidateSkillDir(f, skill_dir)
    IN  IF v # NoError THEN [err |-> v, fs |-> f]
        ELSE WriteArchive(f, skill_dir, out_dir_arg)

-----------------------------------------------------------------------------
(* What an invocation leaves behind: its exit status and what it printed. *)

\* U+2705 and U+274C, the markers of the messages.
OkMarker == "U+2705"

FailMarker == "U+274C"

\* The packager's source holds the bytes C3 A2 C5 93 E2 80 A6 where the other
\* scripts hold U+2705.
PackagedMarker == "U+00E2 U+0153 U+2026"

\* tool: the script; target: the path it was to create, validate or package;
\* dest: the directory it was to write into (none for the validator); exc, msg:
\* the error the operation raised; exit, stream, marker: what main made of it.
NoResult ==
    [tool |-> "none", target |-> <<>>, dest |-> <<>>, exc |-> "", msg |-> "",
     exit |-> 0, stream |-> "", marker |-> ""]

\* try: ... print(ok marker); return 0  except Exception: print(fail marker,
\* file=sys.stderr); return 1
CaughtResult(tool, target, dest, err) ==
    [tool |-> tool, target |-> target, dest |-> dest, exc |-> err.exc, msg |-> err.msg,
     exit |-> IF err = NoError THEN 0 ELSE 1,
     stream |-> IF err = NoError THEN "stdout" ELSE "stderr",
     marker |-> IF err = NoError THEN OkMarker ELSE FailMarker]

\* The packager's main has no try: an exception leaves main, the interpreter
\* prints its traceback to the error stream and exits with status 1.
UncaughtResult(tool, target, dest, err) ==
    [tool |-> tool, target |-> target, dest |-> dest, exc |-> err.exc, msg |-> err.msg,
     exit |-> IF err = NoError THEN 0 ELSE 1,
     stream |-> IF err = NoError THEN "stdout" ELSE "stderr",
     marker |-> IF err = NoError THEN PackagedMarker ELSE "Traceback"]

-----------------------------------------------------------------------------
(* The arguments the invocations are given. *)

IdAlphabet == {"a", "-", "A"}

SeqsUpTo(A, n) == UNION {[1..k -> A] : k \in 0..n}

\* The identifiers tried on the scaffolders: every string over IdAlphabet up to
\* MaxIdLen, the two examples of the documentation, and the length limit.
Identifiers ==
    SeqsUpTo(IdAlphabet, MaxIdLen)
    \cup {<<"p","d","f","-","p","r","o","c","e","s","s","i","n","g">>, <<"P","D","F","_","P","r","o","c","e","s","s","i","n","g">>, <<"7">>, <<"a","7","-","0","z">>, <<"a","_","a">>,
          Repeat("a", MaxNameLen), Repeat("a", MaxNameLen + 1)}

\* The identifiers taken through scaffolding, validation and packaging.
LifecycleIdents ==
    {<<"a">>, <<"p","d","f","-","p","r","o","c","e","s","s","i","n","g">>, <<"P","D","F","_","P","r","o","c","e","s","s","i","n","g">>, Repeat("a", MaxNameLen)}

SKILLS == <<"s","k","i","l","l","s">>

DIST == <<"d","i","s","t">>

\* The skills directory, and the skill directory itself taken as a root.
SkillsRoots == {<<SKILLS>>, <<SKILLS, ident>>}

InstructionsRoots == {<<<<".","g","i","t","h","u","b">>, <<"i","n","s","t","r","u","c","t","i","o","n","s">>>>}

AgentsRoots == {<<<<".","g","i","t","h","u","b">>, <<"a","g","e","n","t","s">>>>}

ApplyTos == {<<>>, <<"s","r","c","/","*","*","/","*",".","p","y">>}

SkillDirs == {SkillDirOf(root, ident) : root \in SkillsRoots}

\* ./dist, and the skill directory itself taken as the output directory.
OutDirs == {<<DIST>>, <<SKILLS, ident>>}

Procs == {1, 2}

-----------------------------------------------------------------------------
(* The invocations, one action each. *)

Idle == /\ pc = [p \in Procs |-> "idle"]
        /\ perr = [p \in Procs |-> NoError]
        /\ wrote = [p \in Procs |-> {}]

EmptyFs == [p \in {<<>>} |-> DirNode]

InitSkillMain ==
    \E root \in SkillsRoots :
        LET r == InitSkill(fs, ident, root)
        IN  /\ fs' = r.fs
            /\ result' = CaughtResult("init_skill", SkillDirOf(root, ident), root, r.err)
            /\ nOk' = [nOk EXCEPT ![root] = IF r.err = NoError THEN @ + 1 ELSE @]
            /\ UNCHANGED <<ident, nameValue, pc, perr, wrote>>

InitInstructionMain ==
    \E root \in InstructionsRoots, apply_to \in ApplyTos :
        LET r == InitInstruction(fs, root, ident, apply_to)
        IN  /\ fs' = r.fs
            /\ result' = CaughtResult("init_instruction", InstructionPath(root, ident),
                                      root, r.err)
            /\ UNCHANGED <<ident, nameValue, nOk, pc, perr, wrote>>

InitAgentMain ==
    \E root \in AgentsRoots :
        LET r == InitAgent(fs, root, ident)
        IN  /\ fs' = r.fs
            /\ result' = CaughtResult("init_agent", AgentPath(root, ident), root, r.err)
            /\ UNCHANGED <<ident, nameValue, nOk, pc, perr, wrote>>

ValidateMain ==
    \E dir \in SkillDirs :
        /\ result' = CaughtResult("validate", dir, <<>>, ValidateSkillDir(fs, dir))
        /\ UNCHANGED <<ident, nameValue, fs, nOk, pc, perr, wrote>>

PackageMain ==
    \E dir \in SkillDirs, out \in OutDirs :
        LET r == PackageSkill(fs, dir, out)
        IN  /\ fs' = r.fs
            /\ result' = UncaughtResult("package", dir, out, r.err)
            /\ UNCHANGED <<ident, nameValue, nOk, pc, perr, wrote>>

-----------------------------------------------------------------------------
(* Spec: a skill is scaffolded, validated and packaged, starting from an     *)
(* empty working directory.                                                  *)

Init ==
    /\ ident \in LifecycleIdents
    /\ nameValue = ident
    /\ fs = EmptyFs
    /\ result = NoResult
    /\ nOk = [root \in SkillsRoots |-> 0]
    /\ Idle

Next ==
    \/ InitSkillMain
    \/ ValidateMain
    \/ PackageMain

Spec == Init /\ [][Next]_vars

-----------------------------------------------------------------------------
(* SpecScaffold: the three scaffolders on every identifier of Identifiers.   *)

InitScaffold ==
    /\ ident \in Identifiers
    /\ nameValue = ident
    /\ fs = EmptyFs
    /\ result = NoResult
    /\ nOk = [root \in SkillsRoots |-> 0]
    /\ Idle

NextScaffold ==
    \/ InitSkillMain
    \/ InitInstructionMain
    \/ InitAgentMain

SpecScaffold == InitScaffold /\ [][NextScaffold]_vars

-----------------------------------------------------------------------------
(* SpecAuthored: the validator and the packager on a skill directory whose   *)
(* SKILL.md an author wrote, with any name value of NameValues, and which    *)
(* holds any of the Extras beside it.                                        *)

ValAlphabet == {"a", "-", "A", " ", "\"", "'"}

NameValues == SeqsUpTo(ValAlphabet, MaxValLen)

AuthoredDirName == <<"a">>

AuthoredSkillMd(value) ==
    <<"-","-","-","\n","n","a","m","e",":"," ">> \o value \o <<"\n","d","e","s","c","r","i","p","t","i","o","n",":"," ","U","s","e"," ","w","h","e",
       "n"," ","p","a","c","k","a","g","i","n","g"," ","a"," ","s","k","i","l","l",".","\n">>
    \o <<"-","-","-","\n","\n","#"," ","A","\n">>

Extras == {"ds_store", "reference", "nested_ds_store", "file_link", "dir_link"}

AuthoredNodes(value, extras) ==
    LET dir == <<SKILLS, AuthoredDirName>>
        refs == Append(dir, REFERENCES)
    IN  {<< <<>>, DirNode >>, << <<SKILLS>>, DirNode >>, << dir, DirNode >>,
         << Append(dir, SKILL_MD), FileNode(AuthoredSkillMd(value)) >>}
        \cup (IF "ds_store" \in extras
              THEN {<< Append(dir, DS_STORE), FileNode(<<"B","u","d","1">>) >>} ELSE {})
        \cup (IF "reference" \in extras \/ "nested_ds_store" \in extras
              THEN {<< refs, DirNode >>} ELSE {})
        \cup (IF "reference" \in extras
              THEN {<< Append(refs, <<"t","o","p","i","c","-","a",".","m","d">>), FileNode(<<"#"," ","T","o","p","i","c"," ","A","\n">>) >>}
              ELSE {})
        \cup (IF "nested_ds_store" \in extras
              THEN {<< Append(refs, DS_STORE), FileNode(<<"B","u","d","1">>) >>} ELSE {})
        \cup (IF "file_link" \in extras
              THEN {<< Append(dir, <<"l","i","n","k",".","m","d">>), LinkNode(Append(dir, SKILL_MD)) >>}
              ELSE {})
        \cup (IF "dir_link" \in extras
              THEN {<< Append(dir, <<"a","s","s","e","t","s">>), LinkNode(<<<<"s","h","a","r","e","d">>>>) >>,
                    << <<<<"s","h","a","r","e","d">>>>, DirNode >>,
                    << <<<<"s","h","a","r","e","d">>, <<"l","o","g","o",".","t","x","t">>>>, FileNode(<<"l","o","g","o">>) >>}
              ELSE {})

AuthoredFs(value, extras) ==
    LET nodes == AuthoredNodes(value, extras)
    IN  [p \in {n[1] : n \in nodes} |-> (CHOOSE n \in nodes : n[1] = p)[2]]

InitAuthored ==
    /\ ident = AuthoredDirName
    /\ nameValue \in NameValues
    /\ \E extras \in SUBSET Extras :
          /\ nameValue = ident \/ extras = {}
          /\ fs = AuthoredFs(nameValue, extras)
    /\ result = NoResult
    /\ nOk = [root \in SkillsRoots |-> 0]
    /\ Idle

NextAuthored ==
    \/ ValidateMain
    \/ PackageMain

SpecAuthored == InitAuthored /\ [][NextAuthored]_vars

-----------------------------------------------------------------------------
(* SpecRace: two init_skill invocations with the same identifier and the     *)
(* same root run concurrently; every access to the filesystem is one step.   *)

RaceRoot == <<SKILLS>>

RaceDir == SkillDirOf(RaceRoot, ident)

Goto(p, label) == pc' = [pc EXCEPT ![p] = label]

Raise(p, err) ==
    /\ pc' = [pc EXCEPT ![p] = "failed"]
    /\ perr' = [perr EXCEPT ![p] = err]

\* _validate_skill_name, then the exists() of _mkdir_if_missing.
CheckDir(p) ==
    /\ pc[p] = "check_dir"
    /\ IF ValidateSkillName(ident) # NoError
       THEN Raise(p, ValidateSkillName(ident))
       ELSE IF Exists(fs, RaceDir)
       THEN Raise(p, Error("FileExistsError", "Path already exists"))
       ELSE Goto(p, "mkdir") /\ UNCHANGED perr
    /\ UNCHANGED <<ident, nameValue, fs, result, nOk, wrote>>

\* path.mkdir(parents=True, exist_ok=False): the first os.mkdir.
Mkdir(p) ==
    /\ pc[p] = "mkdir"
    /\ LET r == OsMkdir(fs, RaceDir)
       IN  /\ fs' = r.fs
           /\ IF r.err = NoError THEN Goto(p, "check_md") /\ UNCHANGED perr
              ELSE IF r.err.exc = "FileNotFoundError"
              THEN Goto(p, "mkdir_parents") /\ UNCHANGED perr
              ELSE Raise(p, r.err)
    /\ UNCHANGED <<ident, nameValue, result, nOk, wrote>>

\* ... the parents, made with exist_ok=True ...
MkdirParents(p) ==
    /\ pc[p] = "mkdir_parents"
    /\ LET r == PathMkdir(fs, Parent(RaceDir), TRUE, TRUE)
       IN  /\ fs' = r.fs
           /\ IF r.err = NoError THEN Goto(p, "mkdir_retry") /\ UNCHANGED perr
              ELSE Raise(p, r.err)
    /\ UNCHANGED <<ident, nameValue, result, nOk, wrote>>

\* ... and os.mkdir once more, still exclusive.
MkdirRetry(p) ==
    /\ pc[p] = "mkdir_retry"
    /\ LET r == PathMkdir(fs, RaceDir, FALSE, FALSE)
       IN  /\ fs' = r.fs
           /\ IF r.err = NoError THEN Goto(p, "check_md") /\ UNCHANGED perr
              ELSE Raise(p, r.err)
    /\ UNCHANGED <<ident, nameValue, result, nOk, wrote>>

\* The exists() of _write_file_if_missing.
CheckSkillMd(p) ==
    /\ pc[p] = "check_md"
    /\ IF Exists(fs, Append(RaceDir, SKILL_MD))
       THEN Raise(p, Error("FileExistsError", "File already exists"))
       ELSE Goto(p, "ensure_parent") /\ UNCHANGED perr
    /\ UNCHANGED <<ident, nameValue, fs, result, nOk, wrote>>

EnsureSkillMdParent(p) ==
    /\ pc[p] = "ensure_parent"
    /\ LET r == EnsureParentDir(fs, Append(RaceDir, SKILL_MD))
       IN  /\ fs' = r.fs
           /\ IF r.err = NoError THEN Goto(p, "write_md") /\ UNCHANGED perr
              ELSE Raise(p, r.err)
    /\ UNCHANGED <<ident, nameValue, result, nOk, wrote>>

WriteSkillMd(p) ==
    /\ pc[p] = "write_md"
    /\ LET r == WriteText(fs, Append(RaceDir, SKILL_MD), SkillMdContent(ident))
       IN  /\ fs' = r.fs
           /\ IF r.err = NoError
              THEN /\ Goto(p, "mkdir_refs")
                   /\ wrote' = [wrote EXCEPT ![p] = @ \cup {SKILL_MD}]
                   /\ UNCHANGED perr
              ELSE Raise(p, r.err) /\ UNCHANGED wrote
    /\ UNCHANGED <<ident, nameValue, result, nOk>>

MkdirReferences(p) ==
    /\ pc[p] = "mkdir_refs"
    /\ LET r == PathMkdir(fs, Append(RaceDir, REFERENCES), FALSE, TRUE)
       IN  /\ fs' = r.fs
           /\ IF r.err = NoError THEN Goto(p, "check_readme") /\ UNCHANGED perr
              ELSE Raise(p, r.err)
    /\ UNCHANGED <<ident, nameValue, result, nOk, wrote>>

CheckReadme(p) ==
    /\ pc[p] = "check_readme"
    /\ IF Exists(fs, Append(RaceDir, README_MD))
       THEN Goto(p, "done")
       ELSE Goto(p, "write_readme")
    /\ UNCHANGED <<ident, nameValue, fs, result, nOk, perr, wrote>>

WriteReadme(p) ==
    /\ pc[p] = "write_readme"
    /\ LET r == WriteText(fs, Append(RaceDir, README_MD), ReadmeContent(ident))
       IN  /\ fs' = r.fs
           /\ IF r.err = NoError
              THEN /\ Goto(p, "done")
                   /\ wrote' = [wrote EXCEPT ![p] = @ \cup {README_MD}]
                   /\ UNCHANGED perr
              ELSE Raise(p, r.err) /\ UNCHANGED wrote
    /\ UNCHANGED <<ident, nameValue, result, nOk>>

\* The skills root is there or not when the two invocations start.
InitRace ==
    /\ ident \in LifecycleIdents
    /\ nameValue = ident
    /\ fs \in {EmptyFs, Put(EmptyFs, RaceRoot, DirNode)}
    /\ result = NoResult
    /\ nOk = [root \in SkillsRoots |-> 0]
    /\ pc = [p \in Procs |-> "check_dir"]
    /\ perr = [p \in Procs |-> NoError]
    /\ wrote = [p \in Procs |-> {}]

NextRace ==
    \E p \in Procs :
        \/ CheckDir(p)
        \/ Mkdir(p)
        \/ MkdirParents(p)
        \/ MkdirRetry(p)
        \/ CheckSkillMd(p)
        \/ EnsureSkillMdParent(p)
        \/ WriteSkillMd(p)
        \/ MkdirReferences(p)
        \/ CheckReadme(p)
        \/ WriteReadme(p)

SpecRace == InitRace /\ [][NextRace]_vars

-----------------------------------------------------------------------------
(* The properties. *)

\* The identifier rule as the documentation states it: 1-64 characters of
\* a-z, 0-9 and hyphen, no hyphen first or last, no two hyphens in a row.
KebabRule(s) ==
    /\ Len(s) >= 1
    /\ Len(s) <= 64
    /\ \A i \in 1..Len(s) : s[i] \in AlnumLower \cup {"-"}
    /\ s[1] # "-"
    /\ s[Len(s)] # "-"
    /\ \A i \in 1..(Len(s) - 1) : ~(s[i] = "-" /\ s[i + 1] = "-")

Scaffolders == {"init_skill", "init_instruction", "init_agent"}

\* C1: for an identifier that satisfies the rule, an init_skill into a root that
\* holds no path of that name succeeds, an init_skill onto an existing path
\* fails with FileExistsError and changes nothing, and so no root ever sees
\* more than one success.
C1_ScaffoldOnce ==
    /\ [](\A root \in SkillsRoots : nOk[root] <= 1)
    /\ [][(result'.tool = "init_skill" /\ KebabRule(ident)) =>
            IF Exists(fs, result'.target)
            THEN /\ result'.exc = "FileExistsError"
                 /\ result'.exit = 1
                 /\ fs' = fs
                 /\ nOk' = nOk
            ELSE /\ result'.exc = ""
                 /\ result'.exit = 0
                 /\ IsDir(fs', result'.target)
                 /\ nOk'[result'.dest] = nOk[result'.dest] + 1]_vars

\* A second init_skill of pdf-processing into skills/ has failed after the first
\* succeeded.
C1_Witness ==
    /\ ident = <<"p","d","f","-","p","r","o","c","e","s","s","i","n","g">>
    /\ result.tool = "init_skill"
    /\ result.dest = <<SKILLS>>
    /\ result.exc = "FileExistsError"
    /\ nOk[<<SKILLS>>] = 1

\* C2: with an identifier that violates the rule, every scaffolder fails with
\* the invalid-identifier error (ValueError) and nothing has been created.
C2_InvalidIdentifierRejected ==
    ~KebabRule(ident) =>
        /\ fs = EmptyFs
        /\ result.tool \in Scaffolders =>
              /\ result.exc = "ValueError"
              /\ result.exit = 1
              /\ result.msg # "--apply-to is required"

\* init_agent has rejected an identifier of 65 characters that is otherwise
\* well formed.
C2_Witness ==
    /\ result.tool = "init_agent"
    /\ result.exc = "ValueError"
    /\ Len(ident) = MaxNameLen + 1
    /\ fs = EmptyFs

\* C3: validate_skill_dir on a directory that a successful init_skill created
\* succeeds.
C3_RoundTrip ==
    (/\ result.tool = "validate"
     /\ nOk[Parent(result.target)] >= 1) =>
        /\ result.exc = ""
        /\ result.exit = 0

\* The validator has accepted the scaffolded skill whose name has 64 characters.
C3_Witness ==
    /\ result.tool = "validate"
    /\ result.exc = ""
    /\ nOk[Parent(result.target)] = 1
    /\ Len(ident) = MaxNameLen

\* The paths below d that are regular files (an archive is one), links apart.
RegularFilesUnder(f, d) ==
    {p \in DOMAIN f : IsUnder(d, p) /\ f[p].kind \in {"file", "zip"}}

\* The paths below d that Path.is_file() holds of: regular files, and links to
\* regular files.
FilesUnder(f, d) ==
    {p \in DOMAIN f :
        /\ IsUnder(d, p)
        /\ Resolve(f, p) \in DOMAIN f
        /\ f[Resolve(f, p)].kind \in {"file", "zip"}}

\* <name of d>/<path of p relative to d>
PrefixedName(d, p) == d[Len(d)] \o <<"/">> \o Join(SubSeq(p, Len(d) + 1, Len(p)), <<"/">>)

Packaged == result'.tool = "package" /\ result'.exc = ""

NewArchive == fs'[Append(result'.dest, ident \o <<".","z","i","p">>)]

\* C4 as amended: the archive a successful packaging writes holds exactly one
\* entry per regular file (not a symbolic link) below the skill directory whose
\* name is not .DS_Store, named <directory name>/<relative path>, with the
\* file's content.
C4_ArchiveEntries ==
    [][Packaged =>
        NewArchive.entries =
            {[arcname |-> PrefixedName(result'.target, p),
              data |-> fs[p].data,
              entries |-> fs[p].entries] :
                p \in {q \in RegularFilesUnder(fs, result'.target) :
                          q[Len(q)] # DS_STORE}}]_vars

\* A directory holding .DS_Store files, a reference and links has been packaged.
C4_Witness ==
    /\ result.tool = "package"
    /\ result.exc = ""
    /\ result.dest = <<DIST>>
    /\ Append(result.target, DS_STORE) \in DOMAIN fs
    /\ \E p \in DOMAIN fs : IsUnder(result.target, p) /\ fs[p].kind = "symlink"
    /\ Cardinality(fs[<<DIST, ident \o <<".","z","i","p">>>>].entries) = 2

\* C4 as stated: an entry for every file below the skill directory whose name
\* is not .DS_Store, and no other entry.
C4_Original ==
    [][Packaged =>
        {e.arcname : e \in NewArchive.entries} =
            {PrefixedName(result'.target, p) :
                p \in {q \in FilesUnder(fs, result'.target) : q[Len(q)] # DS_STORE}}]_vars

PackagedOnto == result'.tool = "package" /\ Append(result'.dest, ident \o <<".","z","i","p">>) \in DOMAIN fs

\* C5 as amended: when <output_dir>/<name>.zip exists the packager fails and
\* changes nothing; the error is the archive-conflict error if the skill
\* directory passes validation, and the validation's error if it does not.
C5_NeverOverwrites ==
    [][PackagedOnto =>
        /\ result'.exit = 1
        /\ fs' = fs
        /\ IF ValidateSkillDir(fs, result'.target) = NoError
           THEN /\ result'.exc = "FileExistsError"
                /\ result'.msg = "Refusing to overwrite existing archive"
           ELSE /\ result'.exc = ValidateSkillDir(fs, result'.target).exc
                /\ result'.msg = ValidateSkillDir(fs, result'.target).msg]_vars

\* The packager has refused to overwrite dist/<name>.zip.
C5_Witness ==
    /\ result.tool = "package"
    /\ result.dest = <<DIST>>
    /\ result.msg = "Refusing to overwrite existing archive"
    /\ fs[<<DIST, ident \o <<".","z","i","p">>>>].kind = "zip"

\* C5 as stated: when <output_dir>/<name>.zip exists the packager fails with
\* the archive-conflict error and the archive is unchanged.
C5_Original ==
    [][PackagedOnto =>
        /\ result'.exc = "FileExistsError"
        /\ NewArchive = fs[Append(result'.dest, ident \o <<".","z","i","p">>)]]_vars

\* C6: when validate_skill_dir fails on the skill directory the packager fails
\* with that error and the filesystem is as it was (no output directory, no
\* archive); whatever the packager changes, the directory had passed validation.
C6_ValidatesFirst ==
    [][result'.tool = "package" =>
        LET v == ValidateSkillDir(fs, result'.target)
        IN  /\ v # NoError =>
                  /\ result'.exc = v.exc
                  /\ result'.msg = v.msg
                  /\ fs' = fs
            /\ fs' # fs => v = NoError]_vars

\* Packaging a directory without SKILL.md has failed and ./dist was not made.
C6_Witness ==
    /\ result.tool = "package"
    /\ result.dest = <<DIST>>
    /\ result.msg = "SKILL.md not found"
    /\ <<DIST>> \notin DOMAIN fs

\* What str.strip(chars) leaves of a value.
Trim(s, set) ==
    LET keep == {i \in 1..Len(s) : s[i] \notin set}
    IN  IF keep = {} THEN <<>> ELSE SubSeq(s, Min(keep), Max(keep))

\* The name value with surrounding whitespace, then double quotes, then single
\* quotes removed.
TrimmedName == Trim(Trim(Trim(nameValue, Whitespace), {"\""}), {"'"})

ValidatedAuthored == result.tool = "validate" /\ result.target = <<SKILLS, ident>>

\* C7 as amended: validation of an otherwise valid skill directory fails when
\* the name value, trimmed of surrounding whitespace and quotes, differs from
\* the directory's name, and succeeds when it equals it; the error is the
\* name-mismatch error when the trimmed value satisfies the identifier rule, and
\* the name-length or name-format error when it does not.
C7_NameMismatch ==
    ValidatedAuthored =>
        IF TrimmedName = ident THEN result.exc = ""
        ELSE /\ result.exc = "ValueError"
             /\ IF KebabRule(TrimmedName)
                THEN result.msg = "Frontmatter name must match directory name"
                ELSE result.msg \in {"name must be 1-64 characters",
                                     "name must be lowercase a-z0-9 plus single hyphens"}

\* The validator has raised the name-mismatch error for a quoted name that
\* differs from the directory's.
C7_Witness ==
    /\ ValidatedAuthored
    /\ nameValue = <<"\"","a","a">>
    /\ result.msg = "Frontmatter name must match directory name"

\* C7 as stated: any name value different from the directory's name makes the
\* validation fail with the name-mismatch error.
C7_Original ==
    (ValidatedAuthored /\ nameValue # ident) =>
        result.msg = "Frontmatter name must match directory name"

\* C8: an error raised by the operation is printed to the error stream with the
\* failure marker and the exit status is 1; exit status 0 or the success marker
\* only when no error was raised.
C8_ErrorsReported ==
    result.tool # "none" =>
        /\ result.exc # "" =>
              /\ result.exit = 1
              /\ result.stream = "stderr"
              /\ result.marker = FailMarker
        /\ (result.exit = 0 \/ result.marker = OkMarker) => result.exc = ""

\* The files and contents at and below d.
Subtree(f, d) == [p \in {q \in DOMAIN f : IsPrefix(d, q)} |-> f[p]]

Created == {SkillDirOf(root, ident) : root \in {r \in SkillsRoots : nOk[r] >= 1}}

\* C9 as amended: an invocation whose destination (the scaffolder's skills
\* root, the packager's output directory) is not the created skill directory
\* or a directory below it leaves the files and contents of the skill
\* directory as they were.
C9_SkillDirUntouched ==
    [][\A d \in Created :
          ~IsPrefix(d, result'.dest) => Subtree(fs', d) = Subtree(fs, d)]_vars

\* A created skill has been packaged into ./dist, and scaffolded onto again.
C9_Witness ==
    /\ nOk[<<SKILLS>>] = 1
    /\ <<DIST, ident \o <<".","z","i","p">>>> \in DOMAIN fs
    /\ result.tool = "init_skill"
    /\ result.dest = <<SKILLS>>
    /\ result.exc = "FileExistsError"

\* C9 as stated: no invocation, whatever its arguments, changes the files or
\* contents of a created skill directory.
C9_Original ==
    [][\A d \in Created : Subtree(fs', d) = Subtree(fs, d)]_vars

\* C10: of two concurrent init_skill invocations with the same valid
\* identifier and root at most one succeeds, one that fails fails with
\* FileExistsError and has written neither SKILL.md nor README.md, and when
\* both have finished exactly one has succeeded.
C10_RaceOneWinner ==
    KebabRule(ident) =>
        /\ Cardinality({p \in Procs : pc[p] = "done"}) <= 1
        /\ \A p \in Procs :
              pc[p] = "failed" => perr[p].exc = "FileExistsError" /\ wrote[p] = {}
        /\ (\A p \in Procs : pc[p] \in {"done", "failed"}) =>
              Cardinality({p \in Procs : pc[p] = "done"}) = 1

\* Both passed the exists() check; one made the directory and finished, the
\* other's os.mkdir failed.
C10_Witness ==
    /\ KebabRule(ident)
    /\ pc[1] = "done"
    /\ pc[2] = "failed"
    /\ perr[2].msg = "File exists"
    /\ wrote[1] = {SKILL_MD, README_MD}

=============================================================================
